---- MODULE Spec2Model ----
(***************************************************************************)
(* gogrep: a concurrent multi-file line search.  The model follows         *)
(* src/gogrep.go: main (flag handling, file discovery, pool start-up and   *)
(* shut-down), worker, searchFile, Matcher.Match and NewMatcher, with the  *)
(* jobs channel (buffered, capacity poolSize), the results channel         *)
(* (unbuffered) and the print goroutine.                                   *)
(*                                                                         *)
(* Strings are sequences of one-character strings; a file is a sequence of *)
(* lines.  A job carries the index of its entry in filePaths, so that two  *)
(* entries naming the same path stay distinguishable.                      *)
(***************************************************************************)
EXTENDS Integers, Sequences, FiniteSets, TLC

(***************************************************************************)
(* Bounds of the model.                                                    *)
(***************************************************************************)
\* longest file list given on the command line
MaxFiles == 2
\* largest value of -g, hence the largest number of workers
MaxPool == 2
\* longest file content enumerated for the single-file scans
MaxLines == 3

\* runtime.NumCPU() of the machine the model runs on
NumCPU == 2
\* the ANSI colour used for highlighting
Green == 32

VARIABLES
    args,          \* the command line: flags c, e, i, l, m, g and the tail
    fs,            \* the file system: path -> [kind, lines, err, entries]
    mainPc,        \* main's position
    options,       \* main's []Option, in the order appended
    pattern,       \* tail[0]
    files,         \* tail[1:]
    filePaths,     \* the discovered files
    matcher,       \* the Matcher's options, as NewMatcher left them
    poolSize,      \* the pool size
    started,       \* number of workers started so far (the loop's i)
    next,          \* index of the next entry of filePaths to enqueue
    jobs,          \* the jobs channel's buffer
    jobsClosed,    \* close(jobs) has happened
    resultsClosed, \* close(results) has happened
    wg,            \* the workers' WaitGroup counter
    printWg,       \* the print goroutine's WaitGroup counter
    wk,            \* each worker's position and searchFile locals
    printerPc,     \* the print goroutine's position
    result,        \* the message the print goroutine holds
    printed,       \* standard output, one message per element
    exit,          \* "running", or how the process ended
    enqueued,      \* history: job -> number of times sent on jobs
    scans          \* history: job -> number of searchFile invocations

vars == <<args, fs, mainPc, options, pattern, files, filePaths, matcher,
          poolSize, started, next, jobs, jobsClosed, resultsClosed, wg,
          printWg, wk, printerPc, result, printed, exit, enqueued, scans>>

(***************************************************************************)
(* Strings.                                                                *)
(***************************************************************************)
\* strings.ToLower on one character
LowerChar(c) == IF c = "A" THEN "a" ELSE IF c = "B" THEN "b" ELSE c

\* strings.ToLower
ToLower(s) == [k \in 1..Len(s) |-> LowerChar(s[k])]

\* does sub occur in s at position k
OccursAt(s, sub, k) ==
    /\ k + Len(sub) - 1 <= Len(s)
    /\ \A n \in 1..Len(sub) : s[k + n - 1] = sub[n]

\* the substring looked for at the start of the line only
HasPrefix(s, sub) == OccursAt(s, sub, 1)

\* strings.Contains
Contains(s, sub) == \E k \in 1..(Len(s) + 1) : OccursAt(s, sub, k)

(***************************************************************************)
(* Regular expressions, for the expressions made of literal characters and *)
(* "." (any character); "(" stands for an expression that does not        *)
(* compile (a group that is never closed).                                 *)
(***************************************************************************)
\* the error of regexp.Compile dropped
CompilesAlways(p) == TRUE

\* regexp.Compile succeeds
Compiles(p) == \A k \in 1..Len(p) : p[k] # "("

\* the compiled expression matches s at position k (a match spans Len(re))
ReMatchAt(re, s, k) ==
    /\ k + Len(re) - 1 <= Len(s)
    /\ \A n \in 1..Len(re) : re[n] = "." \/ re[n] = s[k + n - 1]

\* Regexp.MatchString
MatchString(re, s) == \E k \in 1..(Len(s) + 1) : ReMatchAt(re, s, k)

(***************************************************************************)
(* Highlighting and formatting.                                            *)
(***************************************************************************)
\* fmt.Sprintf("\x1b[%dm%s\x1b[0m", 32, s)
Highlight(s) == <<"\\x1b[" \o ToString(Green) \o "m">> \o s \o <<"\\x1b[0m">>

RECURSIVE ReplaceFrom(_, _, _)
\* strings.Replace(s, old, Highlight(old), -1), from position k on
ReplaceFrom(s, old, k) ==
    IF k > Len(s)
    THEN IF old = <<>> THEN Highlight(old) ELSE <<>>
    ELSE IF old = <<>>
         THEN Highlight(old) \o <<s[k]>> \o ReplaceFrom(s, old, k + 1)
         ELSE IF OccursAt(s, old, k)
              THEN Highlight(old) \o ReplaceFrom(s, old, k + Len(old))
              ELSE <<s[k]>> \o ReplaceFrom(s, old, k + 1)

\* strings.Replace(line, pattern, highlighted pattern, -1)
Replace(s, old) == ReplaceFrom(s, old, 1)

RECURSIVE ReReplaceFrom(_, _, _)
\* Regexp.ReplaceAllString(s, highlighted "$0"), from position k on
ReReplaceFrom(re, s, k) ==
    IF k > Len(s)
    THEN IF re = <<>> THEN Highlight(<<>>) ELSE <<>>
    ELSE IF re = <<>>
         THEN Highlight(<<>>) \o <<s[k]>> \o ReReplaceFrom(re, s, k + 1)
         ELSE IF ReMatchAt(re, s, k)
              THEN Highlight(SubSeq(s, k, k + Len(re) - 1))
                       \o ReReplaceFrom(re, s, k + Len(re))
              ELSE <<s[k]>> \o ReReplaceFrom(re, s, k + 1)

\* Regexp.ReplaceAllString(line, highlighted "$0")
ReplaceAllString(re, s) == ReReplaceFrom(re, s, 1)

\* fmt.Sprintf("%s:%s\n", filePath, line)
SprintfPathLine(path, line) == <<path, ":">> \o line \o <<"\n">>

\* fmt.Sprintln(s)
Sprintln(s) == s \o <<"\n">>

\* fmt.Sprintf("%s:%d\n", filePath, lineCount)
SprintfPathCount(path, n) == <<path, ":", ToString(n), "\n">>

(***************************************************************************)
(* Options and the Matcher.                                                *)
(***************************************************************************)
\* an Option: the field it sets and the value it carries
Opt(name, max, re) == [op |-> name, max |-> max, re |-> re]

OnlyCount == Opt("OnlyCount", 0, <<>>)
FilesWithMatches == Opt("FilesWithMatches", 0, <<>>)
MaxMatches(max) == Opt("MaxMatches", max, <<>>)
NumFiles(fileCount) == Opt("NumFiles", fileCount, <<>>)
Regexp(re) == Opt("Regexp", 0, re)
CaseInsensitive == Opt("CaseInsensitive", 0, <<>>)

\* opt(&options): what one Option does to the Options value
Apply(opt, o) ==
    CASE opt.op = "OnlyCount" -> [o EXCEPT !.onlyCount = TRUE]
      [] opt.op = "FilesWithMatches" -> [o EXCEPT !.filesWithMatches = TRUE]
      [] opt.op = "MaxMatches" -> [o EXCEPT !.maxMatches = opt.max]
      [] opt.op = "NumFiles" -> [o EXCEPT !.numFiles = opt.max]
      [] opt.op = "Regexp" -> [o EXCEPT !.regexp = TRUE, !.regexpPattern = opt.re]
      [] opt.op = "CaseInsensitive" -> [o EXCEPT !.caseInsensitive = TRUE]

\* the Options literal NewMatcher starts from
DefaultOptions ==
    [onlyCount |-> FALSE, filesWithMatches |-> FALSE, maxMatches |-> -1,
     suppressNormalOutput |-> FALSE, numFiles |-> 1, regexp |-> FALSE,
     regexpPattern |-> <<>>, caseInsensitive |-> FALSE]

RECURSIVE ApplyAll(_, _)
\* for _, opt := range opts { opt(&options) }
ApplyAll(opts, o) ==
    IF opts = <<>> THEN o ELSE ApplyAll(Tail(opts), Apply(Head(opts), o))

\* normal output suppressed by -c only
SuppressCountOnly(o) == o.onlyCount

\* options.suppressNormalOutput = options.onlyCount || options.filesWithMatches
Suppress(o) == o.onlyCount \/ o.filesWithMatches

NewMatcher(opts) ==
    LET o == ApplyAll(opts, DefaultOptions)
    IN  [o EXCEPT !.suppressNormalOutput = Suppress(o)]

\* Matcher.Match
Match(m, pat, input) ==
    LET p == IF m.caseInsensitive THEN ToLower(pat) ELSE pat
        s == IF m.caseInsensitive THEN ToLower(input) ELSE input
    IN  IF m.regexp THEN MatchString(m.regexpPattern, s) ELSE Contains(s, p)

(***************************************************************************)
(* Messages.  text is the string sent on the results channel; job, kind    *)
(* and lineNo record which scan produced it and from which line.           *)
(***************************************************************************)
Msg(job, kind, lineNo, text) ==
    [job |-> job, kind |-> kind, lineNo |-> lineNo, text |-> text]

NoMsg == Msg(0, "none", 0, <<>>)

(***************************************************************************)
(* File discovery: os.Stat on each argument, filepath.WalkDir on each      *)
(* directory.                                                              *)
(***************************************************************************)
RECURSIVE Discover(_, _)
\* the loop over files: [err, paths]
Discover(fsys, fl) ==
    IF fl = <<>> THEN [err |-> FALSE, paths |-> <<>>]
    ELSE LET f == fsys[Head(fl)]
             rest == Discover(fsys, Tail(fl))
         IN  IF f.kind = "missing" THEN [err |-> TRUE, paths |-> <<>>]
             ELSE IF rest.err THEN rest
             ELSE IF f.kind = "dir"
                  THEN [err |-> FALSE, paths |-> f.entries \o rest.paths]
                  ELSE [err |-> FALSE, paths |-> <<Head(fl)>> \o rest.paths]

(***************************************************************************)
(* The workers.                                                            *)
(***************************************************************************)
Workers == 1..(IF MaxPool > NumCPU THEN MaxPool ELSE NumCPU)

\* a goroutine that has not been started
Idle ==
    [pc |-> "off", job |-> 0, pos |-> 0, hasMatch |-> FALSE, lineCount |-> 0,
     msg |-> NoMsg]

\* the positions at which a worker is blocked in a send on results
SendPc == {"sendLine", "sendCount", "sendName"}

\* the path and the lines of the file a worker scans
PathOf(w) == filePaths[wk[w].job]
LinesOf(w) == fs[PathOf(w)].lines

\* log.Fatal: the process exits with status 1
Fatal == exit' = "fatal"

(***************************************************************************)
(* main, up to the creation of the channels.                               *)
(***************************************************************************)
\* flag.Parse, the options of -c, -i, -l, -m, and the check of the tail
MainParse ==
    /\ exit = "running" /\ mainPc = "parse"
    /\ LET o1 == IF args.c THEN <<OnlyCount>> ELSE <<>>
           o2 == IF args.i THEN <<CaseInsensitive>> ELSE <<>>
           o3 == IF args.l THEN <<FilesWithMatches>> ELSE <<>>
       IN  options' = o1 \o o2 \o o3 \o <<MaxMatches(args.m)>>
    /\ IF Len(args.tail) < 2
       THEN Fatal /\ UNCHANGED <<mainPc, pattern, files>>
       ELSE /\ pattern' = args.tail[1]
            /\ files' = Tail(args.tail)
            /\ mainPc' = "compile"
            /\ UNCHANGED exit
    /\ UNCHANGED <<args, fs, filePaths, matcher, poolSize, started, next, jobs,
                   jobsClosed, resultsClosed, wg, printWg, wk, printerPc,
                   result, printed, enqueued, scans>>

\* regexp.Compile when -e is set
MainCompile ==
    /\ exit = "running" /\ mainPc = "compile"
    /\ IF args.e /\ ~Compiles(pattern)
       THEN Fatal /\ UNCHANGED <<mainPc, options>>
       ELSE /\ options' = IF args.e THEN Append(options, Regexp(pattern))
                          ELSE options
            /\ mainPc' = "discover"
            /\ UNCHANGED exit
    /\ UNCHANGED <<args, fs, pattern, files, filePaths, matcher, poolSize,
                   started, next, jobs, jobsClosed, resultsClosed, wg, printWg,
                   wk, printerPc, result, printed, enqueued, scans>>

\* the discovery loop and NumFiles(len(filePaths))
MainDiscover ==
    /\ exit = "running" /\ mainPc = "discover"
    /\ LET d == Discover(fs, files)
       IN  IF d.err
           THEN Fatal /\ UNCHANGED <<mainPc, options, filePaths, enqueued, scans>>
           ELSE /\ filePaths' = d.paths
                /\ options' = Append(options, NumFiles(Len(d.paths)))
                /\ enqueued' = [j \in 1..Len(d.paths) |-> 0]
                /\ scans' = [j \in 1..Len(d.paths) |-> 0]
                /\ mainPc' = "newMatcher"
                /\ UNCHANGED exit
    /\ UNCHANGED <<args, fs, pattern, files, matcher, poolSize, started, next,
                   jobs, jobsClosed, resultsClosed, wg, printWg, wk, printerPc,
                   result, printed>>

\* the pool size, NewMatcher, and make(chan string, poolSize)
MainNewMatcher ==
    /\ exit = "running" /\ mainPc = "newMatcher"
    /\ poolSize' = IF args.g = -1 THEN NumCPU ELSE args.g
    /\ matcher' = NewMatcher(options)
    /\ IF poolSize' < 0
       THEN exit' = "panic" /\ UNCHANGED mainPc
       ELSE mainPc' = "goPrinter" /\ UNCHANGED exit
    /\ UNCHANGED <<args, fs, options, pattern, files, filePaths, started, next,
                   jobs, jobsClosed, resultsClosed, wg, printWg, wk, printerPc,
                   result, printed, enqueued, scans>>

(***************************************************************************)
(* main: start-up and shut-down of the pool.                               *)
(***************************************************************************)
\* main going on without having started the print goroutine
MainGoPrinterNever ==
    /\ exit = "running" /\ mainPc = "goPrinter"
    /\ printWg' = printWg + 1
    /\ mainPc' = "goWorkers"
    /\ UNCHANGED <<args, fs, options, pattern, files, filePaths, matcher,
                   poolSize, started, next, jobs, jobsClosed, resultsClosed, wg,
                   wk, printerPc, result, printed, exit, enqueued, scans>>

\* printWg.Add(1); go func() { ... }()
MainGoPrinter ==
    /\ exit = "running" /\ mainPc = "goPrinter"
    /\ printWg' = printWg + 1
    /\ printerPc' = "range"
    /\ mainPc' = "goWorkers"
    /\ UNCHANGED <<args, fs, options, pattern, files, filePaths, matcher,
                   poolSize, started, next, jobs, jobsClosed, resultsClosed, wg,
                   wk, result, printed, exit, enqueued, scans>>

\* one iteration of the loop starting the workers: wg.Add(1); go worker(...)
MainGoWorker ==
    /\ exit = "running" /\ mainPc = "goWorkers"
    /\ started < poolSize
    /\ wg' = wg + 1
    /\ wk' = [wk EXCEPT ![started + 1].pc = "range"]
    /\ started' = started + 1
    /\ UNCHANGED <<args, fs, mainPc, options, pattern, files, filePaths,
                   matcher, poolSize, next, jobs, jobsClosed, resultsClosed,
                   printWg, printerPc, result, printed, exit, enqueued, scans>>

\* the loop starting the workers ends
MainWorkersStarted ==
    /\ exit = "running" /\ mainPc = "goWorkers"
    /\ started >= poolSize
    /\ mainPc' = "enqueue"
    /\ UNCHANGED <<args, fs, options, pattern, files, filePaths, matcher,
                   poolSize, started, next, jobs, jobsClosed, resultsClosed, wg,
                   printWg, wk, printerPc, result, printed, exit, enqueued,
                   scans>>

\* a jobs channel that takes every send at once
CanSendAlways == TRUE

\* jobs <- file: there is room in the buffer of capacity poolSize
CanSend == Len(jobs) < poolSize

\* one iteration of the loop sending the jobs
MainEnqueue ==
    /\ exit = "running" /\ mainPc = "enqueue"
    /\ next <= Len(filePaths)
    /\ CanSend
    /\ jobs' = Append(jobs, next)
    /\ enqueued' = [enqueued EXCEPT ![next] = @ + 1]
    /\ next' = next + 1
    /\ UNCHANGED <<args, fs, mainPc, options, pattern, files, filePaths,
                   matcher, poolSize, started, jobsClosed, resultsClosed, wg,
                   printWg, wk, printerPc, result, printed, exit, scans>>

\* close(jobs)
MainCloseJobs ==
    /\ exit = "running" /\ mainPc = "enqueue"
    /\ next > Len(filePaths)
    /\ jobsClosed' = TRUE
    /\ mainPc' = "wait"
    /\ UNCHANGED <<args, fs, options, pattern, files, filePaths, matcher,
                   poolSize, started, next, jobs, resultsClosed, wg, printWg,
                   wk, printerPc, result, printed, exit, enqueued, scans>>

\* wg.Wait() returning at once
WorkersDoneNoWait == TRUE

\* wg.Wait() returns
WorkersDone == wg = 0

\* wg.Wait()
MainWait ==
    /\ exit = "running" /\ mainPc = "wait"
    /\ WorkersDone
    /\ mainPc' = "closeResults"
    /\ UNCHANGED <<args, fs, options, pattern, files, filePaths, matcher,
                   poolSize, started, next, jobs, jobsClosed, resultsClosed, wg,
                   printWg, wk, printerPc, result, printed, exit, enqueued,
                   scans>>

\* close(results)
MainCloseResults ==
    /\ exit = "running" /\ mainPc = "closeResults"
    /\ resultsClosed' = TRUE
    /\ mainPc' = "printWait"
    /\ UNCHANGED <<args, fs, options, pattern, files, filePaths, matcher,
                   poolSize, started, next, jobs, jobsClosed, wg, printWg, wk,
                   printerPc, result, printed, exit, enqueued, scans>>

\* printWg.Wait() returning at once
PrinterDoneNoWait == TRUE

\* printWg.Wait() returns
PrinterDone == printWg = 0

\* printWg.Wait(), and main returns
MainPrintWait ==
    /\ exit = "running" /\ mainPc = "printWait"
    /\ PrinterDone
    /\ mainPc' = "done"
    /\ exit' = "ok"
    /\ UNCHANGED <<args, fs, options, pattern, files, filePaths, matcher,
                   poolSize, started, next, jobs, jobsClosed, resultsClosed, wg,
                   printWg, wk, printerPc, result, printed, enqueued, scans>>

(***************************************************************************)
(* worker and searchFile.                                                  *)
(***************************************************************************)
\* a receive that leaves the job in the buffer
DequeueKeep(q) == q

\* what a receive leaves in the jobs buffer
Dequeue(q) == Tail(q)

\* for job := range jobs: receive a job and call searchFile, or leave the
\* loop when jobs is closed and empty (the deferred wg.Done)
WorkerRange(w) ==
    /\ exit = "running" /\ wk[w].pc = "range"
    /\ IF jobs # <<>>
       THEN /\ wk' = [wk EXCEPT ![w].pc = "open", ![w].job = Head(jobs)]
            /\ jobs' = Dequeue(jobs)
            /\ scans' = [scans EXCEPT ![Head(jobs)] = @ + 1]
            /\ UNCHANGED wg
       ELSE /\ jobsClosed
            /\ wk' = [wk EXCEPT ![w].pc = "done"]
            /\ wg' = wg - 1
            /\ UNCHANGED <<jobs, scans>>
    /\ UNCHANGED <<args, fs, mainPc, options, pattern, files, filePaths,
                   matcher, poolSize, started, next, jobsClosed, resultsClosed,
                   printWg, printerPc, result, printed, exit, enqueued>>

\* the error of os.Open dropped
OpenFailsNever(f) == FALSE

\* os.Open returns an error
OpenFails(f) == f.err = "open"

\* os.Open, and the locals of searchFile
SearchOpen(w) ==
    /\ exit = "running" /\ wk[w].pc = "open"
    /\ IF OpenFails(fs[PathOf(w)])
       THEN Fatal /\ UNCHANGED wk
       ELSE /\ wk' = [wk EXCEPT ![w].pc = "scan", ![w].pos = 0,
                                ![w].hasMatch = FALSE, ![w].lineCount = 0]
            /\ UNCHANGED exit
    /\ UNCHANGED <<args, fs, mainPc, options, pattern, files, filePaths,
                   matcher, poolSize, started, next, jobs, jobsClosed,
                   resultsClosed, wg, printWg, printerPc, result, printed,
                   enqueued, scans>>

\* the line as it is reported: highlighted, with the path when numFiles != 1
LineText(o, path, pat, line) ==
    LET hl == IF o.regexp THEN ReplaceAllString(o.regexpPattern, line)
              ELSE Replace(line, pat)
    IN  IF o.numFiles # 1 THEN SprintfPathLine(path, hl) ELSE Sprintln(hl)

\* the limit noticed one match late
MaxReachedLate(o, lineCount) == o.maxMatches # -1 /\ lineCount > o.maxMatches

\* maxMatches != -1 && lineCount == maxMatches
MaxReached(o, lineCount) == o.maxMatches # -1 /\ lineCount = o.maxMatches

\* where the loop goes after a match has been handled
AfterMatch(o, lineCount) == IF MaxReached(o, lineCount) THEN "summary" ELSE "scan"

\* every line treated as worth matching
SkippedNever(line) == FALSE

\* if len(line) == 0 { continue }
Skipped(line) == Len(line) = 0

\* the matching line goes on without being handed to the results channel
OnMatchNoWait(o, lineCount) ==
    IF o.filesWithMatches THEN "summary" ELSE AfterMatch(o, lineCount)

\* where a counted match leads: out of the loop when only the filename is
\* wanted, to the send of the line unless output is suppressed, else to the
\* check of the limit
OnMatch(o, lineCount) ==
    IF o.filesWithMatches THEN "summary"
    ELSE IF ~o.suppressNormalOutput THEN "sendLine"
    ELSE AfterMatch(o, lineCount)

\* one iteration of the scan loop, up to the send of a matching line; when
\* scanner.Scan() returns false, the check of scanner.Err()
SearchScan(w) ==
    /\ exit = "running" /\ wk[w].pc = "scan"
    /\ LET me == wk[w]
           lines == LinesOf(w)
       IN  IF me.pos >= Len(lines)
           THEN IF fs[PathOf(w)].err = "read"
                THEN Fatal /\ UNCHANGED wk
                ELSE wk' = [wk EXCEPT ![w].pc = "summary"] /\ UNCHANGED exit
           ELSE LET line == lines[me.pos + 1]
                    count == me.lineCount + 1
                IN  /\ UNCHANGED exit
                    /\ IF Skipped(line) \/ ~Match(matcher, pattern, line)
                       THEN wk' = [wk EXCEPT ![w].pos = me.pos + 1]
                       ELSE wk' = [wk EXCEPT
                              ![w].pos = me.pos + 1,
                              ![w].hasMatch = TRUE,
                              ![w].lineCount = count,
                              ![w].pc = OnMatch(matcher, count),
                              ![w].msg =
                                  IF ~matcher.filesWithMatches
                                     /\ ~matcher.suppressNormalOutput
                                  THEN Msg(me.job, "line", me.pos + 1,
                                           LineText(matcher, PathOf(w), pattern, line))
                                  ELSE NoMsg]
    /\ UNCHANGED <<args, fs, mainPc, options, pattern, files, filePaths,
                   matcher, poolSize, started, next, jobs, jobsClosed,
                   resultsClosed, wg, printWg, printerPc, result, printed,
                   enqueued, scans>>

\* the count left out when the filename is asked for
CountDueUnlessNames(o) == o.onlyCount /\ ~o.filesWithMatches

\* the count message is due
CountDue(o) == o.onlyCount

\* the text of the count message
CountText(o, path, n) == SprintfPathCount(path, n)

\* the filename sent for every file scanned
NameDueAlways(o, hasMatch) == o.filesWithMatches

\* the filename message is due
NameDue(o, hasMatch) == o.filesWithMatches /\ hasMatch

\* the send of the filename message, or the return of searchFile, which
\* leaves the worker at its range over jobs
NameOrReturn(w) ==
    IF NameDue(matcher, wk[w].hasMatch)
    THEN [wk EXCEPT ![w].pc = "sendName",
                    ![w].msg = Msg(wk[w].job, "name", 0, Sprintln(<<PathOf(w)>>))]
    ELSE [wk EXCEPT ![w].pc = "range"]

\* the end of the scan: if onlyCount, the send of the count message; else the
\* filename message or the return
SearchCount(w) ==
    /\ exit = "running" /\ wk[w].pc = "summary"
    /\ IF CountDue(matcher)
       THEN wk' = [wk EXCEPT
                ![w].pc = "sendCount",
                ![w].msg = Msg(wk[w].job, "count", 0,
                               CountText(matcher, PathOf(w), wk[w].lineCount))]
       ELSE wk' = NameOrReturn(w)
    /\ UNCHANGED <<args, fs, mainPc, options, pattern, files, filePaths,
                   matcher, poolSize, started, next, jobs, jobsClosed,
                   resultsClosed, wg, printWg, printerPc, result, printed,
                   exit, enqueued, scans>>

\* after the count message: the filename message or the return
SearchName(w) ==
    /\ exit = "running" /\ wk[w].pc = "name"
    /\ wk' = NameOrReturn(w)
    /\ UNCHANGED <<args, fs, mainPc, options, pattern, files, filePaths,
                   matcher, poolSize, started, next, jobs, jobsClosed,
                   resultsClosed, wg, printWg, printerPc, result, printed,
                   exit, enqueued, scans>>

(***************************************************************************)
(* The print goroutine and the results channel.                            *)
(***************************************************************************)
\* where a worker continues once its send has completed: after a line the
\* check of maxMatches, after the count the filename, after the filename the
\* return of searchFile
Resume(me) ==
    CASE me.pc = "sendLine" -> AfterMatch(matcher, me.lineCount)
      [] me.pc = "sendCount" -> "name"
      [] me.pc = "sendName" -> "range"

\* for result := range results: the rendezvous with a sending worker
PrinterRecv(w) ==
    /\ exit = "running" /\ printerPc = "range"
    /\ ~resultsClosed
    /\ wk[w].pc \in SendPc
    /\ result' = wk[w].msg
    /\ wk' = [wk EXCEPT ![w].pc = Resume(wk[w]), ![w].msg = NoMsg]
    /\ printerPc' = "print"
    /\ UNCHANGED <<args, fs, mainPc, options, pattern, files, filePaths,
                   matcher, poolSize, started, next, jobs, jobsClosed,
                   resultsClosed, wg, printWg, printed, exit, enqueued, scans>>

\* the message put before the earlier output
OutputPrepend(out, r) == <<r>> \o out

\* standard output after fmt.Print(result)
Output(out, r) == Append(out, r)

\* fmt.Print(result)
PrinterPrint ==
    /\ exit = "running" /\ printerPc = "print"
    /\ printed' = Output(printed, result)
    /\ result' = NoMsg
    /\ printerPc' = "range"
    /\ UNCHANGED <<args, fs, mainPc, options, pattern, files, filePaths,
                   matcher, poolSize, started, next, jobs, jobsClosed,
                   resultsClosed, wg, printWg, wk, exit, enqueued, scans>>

\* the range over results ends: results is closed (the deferred printWg.Done)
PrinterExit ==
    /\ exit = "running" /\ printerPc = "range"
    /\ resultsClosed
    /\ printerPc' = "done"
    /\ printWg' = printWg - 1
    /\ UNCHANGED <<args, fs, mainPc, options, pattern, files, filePaths,
                   matcher, poolSize, started, next, jobs, jobsClosed,
                   resultsClosed, wg, wk, result, printed, exit, enqueued,
                   scans>>

(***************************************************************************)
(* Inputs: command lines and file systems.                                 *)
(***************************************************************************)
File(lines, err) == [kind |-> "file", lines |-> lines, err |-> err, entries |-> <<>>]
Dir(entries) == [kind |-> "dir", lines |-> <<>>, err |-> "none", entries |-> entries]
Missing == [kind |-> "missing", lines |-> <<>>, err |-> "none", entries |-> <<>>]

\* a file system with two readable files, an unreadable one, one whose read
\* fails after its first line, two directories and a name that does not exist
PoolFs ==
    ("a.txt" :> File(<< <<"a", "b">>, <<"a">> >>, "none"))
    @@ ("b.txt" :> File(<< <<>>, <<"b">> >>, "none"))
    @@ ("noperm.txt" :> File(<<>>, "open"))
    @@ ("bad.txt" :> File(<< <<"a">> >>, "read"))
    @@ ("empty" :> Dir(<<>>))
    @@ ("dir" :> Dir(<<"dir/c.txt">>))
    @@ ("dir/c.txt" :> File(<< <<"a">> >>, "none"))
    @@ ("missing" :> Missing)

\* the readable files, and every name a command line may give
Plain == {"a.txt", "b.txt"}
ArgPaths == Plain \cup {"noperm.txt", "bad.txt", "empty", "dir", "missing"}

\* sequences over S of length at most n
SeqUpTo(S, n) == UNION {[1..k -> S] : k \in 0..n}

\* file lists of at most MaxFiles names: any plain files, or a.txt throughout
\* but for one name that is not a plain file
FileLists ==
    {fl \in SeqUpTo(ArgPaths, MaxFiles) :
        \/ \A k \in DOMAIN fl : fl[k] \in Plain
        \/ \E k \in DOMAIN fl :
              \A n \in DOMAIN fl : IF n = k THEN fl[n] \notin Plain ELSE fl[n] = "a.txt"}

Args(c, e, i, l, m, g, tail) ==
    [c |-> c, e |-> e, i |-> i, l |-> l, m |-> m, g |-> g, tail |-> tail]

\* the flag sets of the pool runs: none, -c, -l, -m 1
PoolFlags == {<<FALSE, FALSE, -1>>, <<TRUE, FALSE, -1>>, <<FALSE, TRUE, -1>>,
              <<FALSE, FALSE, 1>>}

\* command lines that search the file lists with every pool size
RunArgs ==
    {Args(f[1], FALSE, FALSE, f[2], f[3], g, <<(<<"a">>)>> \o fl) :
        f \in PoolFlags, g \in 0..MaxPool, fl \in FileLists}

\* command lines with the default pool size, a negative pool size, a regular
\* expression (valid or not), -i, and a tail that is too short
EdgeArgs ==
    {Args(FALSE, FALSE, FALSE, FALSE, -1, g, <<(<<"a">>), "a.txt", "b.txt">>) :
        g \in {-1, -2}}
    \cup {Args(c, TRUE, i, FALSE, -1, 1, <<p, "a.txt">>) :
            c \in BOOLEAN, i \in BOOLEAN, p \in {<<"a">>, <<".">>, <<"(">>}}
    \cup {Args(TRUE, FALSE, TRUE, TRUE, 1, 1, tail) :
            tail \in {<<>>, <<(<<"a">>)>>}}

InitWith(A, F) ==
    /\ args \in A
    /\ fs \in F
    /\ mainPc = "parse"
    /\ options = <<>>
    /\ pattern = <<>>
    /\ files = <<>>
    /\ filePaths = <<>>
    /\ matcher = DefaultOptions
    /\ poolSize = 0
    /\ started = 0
    /\ next = 1
    /\ jobs = <<>>
    /\ jobsClosed = FALSE
    /\ resultsClosed = FALSE
    /\ wg = 0
    /\ printWg = 0
    /\ wk = [w \in Workers |-> Idle]
    /\ printerPc = "off"
    /\ result = NoMsg
    /\ printed = <<>>
    /\ exit = "running"
    /\ enqueued = <<>>
    /\ scans = <<>>

Init == InitWith(RunArgs \cup EdgeArgs, {PoolFs})

Main ==
    \/ MainParse
    \/ MainCompile
    \/ MainDiscover
    \/ MainNewMatcher
    \/ MainGoPrinter
    \/ MainGoWorker
    \/ MainWorkersStarted
    \/ MainEnqueue
    \/ MainCloseJobs
    \/ MainWait
    \/ MainCloseResults
    \/ MainPrintWait

Worker(w) ==
    \/ WorkerRange(w)
    \/ SearchOpen(w)
    \/ SearchScan(w)
    \/ SearchCount(w)
    \/ SearchName(w)

Printer ==
    \/ \E w \in Workers : PrinterRecv(w)
    \/ PrinterPrint
    \/ PrinterExit

Next ==
    \/ Main
    \/ \E w \in Workers : Worker(w)
    \/ Printer

Spec == Init /\ [][Next]_vars

(***************************************************************************)
(* The single-file scans: one worker, one path given once or twice, every  *)
(* combination of the flags and every content of at most MaxLines lines    *)
(* that are blank, "a" or "A".                                             *)
(***************************************************************************)
ScanLineSet == {<<>>, <<"a">>, <<"A">>}

ScanFs == {("a.txt" :> File(c, "none")) : c \in SeqUpTo(ScanLineSet, MaxLines)}

ScanArgs ==
    {Args(c, e, i, l, m, 1, <<(<<"a">>)>> \o fl) :
        c \in BOOLEAN, e \in BOOLEAN, i \in BOOLEAN, l \in BOOLEAN,
        m \in (-1)..MaxLines, fl \in {<<"a.txt">>, <<"a.txt", "a.txt">>}}

InitScan == InitWith(ScanArgs, ScanFs)

SpecScan == InitScan /\ [][Next]_vars

(***************************************************************************)
(* The pool under the scheduler's fairness: every goroutine that can take  *)
(* a step eventually takes one.                                            *)
(***************************************************************************)
Fairness ==
    /\ WF_vars(Main)
    /\ \A w \in Workers : WF_vars(Worker(w))
    /\ WF_vars(Printer)

\* command lines with the default flags or -c, over a directory holding a file
\* with one matching line and the file whose read fails after its matching line
FairArgs ==
    {Args(c, FALSE, FALSE, FALSE, -1, g, <<(<<"a">>)>> \o fl) :
        c \in BOOLEAN, g \in 0..MaxPool,
        fl \in SeqUpTo({"dir", "bad.txt"}, MaxFiles)}

InitFair == InitWith(FairArgs, {PoolFs})

FairSpec == InitFair /\ [][Next]_vars /\ Fairness

(***************************************************************************)
(* The matching of one file's lines: every pattern of MatchPatterns, as a  *)
(* literal or as a regular expression, with and without -i, in the default *)
(* mode and under -c, -l and -m 1, on every content of up to MaxLines      *)
(* lines of MatchLineSet.                                                  *)
(***************************************************************************)
MatchLineSet == {<<>>, <<"a">>, <<"b", "A">>}

MatchPatterns == {<<>>, <<"a">>, <<"A">>, <<"b", "a">>, <<".">>}

MatchFs == {("a.txt" :> File(c, "none")) : c \in SeqUpTo(MatchLineSet, MaxLines)}

MatchArgs ==
    {Args(f[1], e, i, f[2], f[3], 1, <<p, "a.txt">>) :
        f \in PoolFlags, e \in BOOLEAN, i \in BOOLEAN, p \in MatchPatterns}

InitMatch == InitWith(MatchArgs, MatchFs)

SpecMatch == InitMatch /\ [][Next]_vars

(***************************************************************************)
(* NewMatcher called with every list of at most MaxOpts options, in every  *)
(* order and with repetitions (lists main itself never builds), followed   *)
(* by the search of a.txt with the Matcher it returns.                     *)
(***************************************************************************)
MaxOpts == 3

OptionValues ==
    {OnlyCount, FilesWithMatches, CaseInsensitive, MaxMatches(1), NumFiles(2),
     Regexp(<<"a">>)}

OptLists == SeqUpTo(OptionValues, MaxOpts)

InitOptions ==
    /\ args = Args(FALSE, FALSE, FALSE, FALSE, -1, 1, <<(<<"a">>), "a.txt">>)
    /\ fs = PoolFs
    /\ mainPc = "newMatcher"
    /\ options \in OptLists
    /\ pattern = <<"a">>
    /\ files = <<"a.txt">>
    /\ filePaths = <<"a.txt">>
    /\ matcher = DefaultOptions
    /\ poolSize = 0
    /\ started = 0
    /\ next = 1
    /\ jobs = <<>>
    /\ jobsClosed = FALSE
    /\ resultsClosed = FALSE
    /\ wg = 0
    /\ printWg = 0
    /\ wk = [w \in Workers |-> Idle]
    /\ printerPc = "off"
    /\ result = NoMsg
    /\ printed = <<>>
    /\ exit = "running"
    /\ enqueued = [j \in {1} |-> 0]
    /\ scans = [j \in {1} |-> 0]

\* main from the call of NewMatcher on
MainPool ==
    \/ MainNewMatcher
    \/ MainGoPrinter
    \/ MainGoWorker
    \/ MainWorkersStarted
    \/ MainEnqueue
    \/ MainCloseJobs
    \/ MainWait
    \/ MainCloseResults
    \/ MainPrintWait

NextOptions ==
    \/ MainPool
    \/ \E w \in Workers : Worker(w)
    \/ Printer

SpecOptions == InitOptions /\ [][NextOptions]_vars

(***************************************************************************)
(* The sequential reference: what searchFile sends for one file when it    *)
(* runs alone, as a function of the file's lines.                          *)
(***************************************************************************)
RECURSIVE RefLoop(_, _, _, _, _, _, _)
\* the scan loop from line k on, count matches so far: [msgs, count, pos]
RefLoop(o, pat, job, path, lines, k, count) ==
    IF k > Len(lines) THEN [msgs |-> <<>>, count |-> count, pos |-> Len(lines)]
    ELSE IF Len(lines[k]) = 0 \/ ~Match(o, pat, lines[k])
    THEN RefLoop(o, pat, job, path, lines, k + 1, count)
    ELSE IF o.filesWithMatches
    THEN [msgs |-> <<>>, count |-> count + 1, pos |-> k]
    ELSE LET m == IF o.suppressNormalOutput THEN <<>>
                  ELSE <<Msg(job, "line", k, LineText(o, path, pat, lines[k]))>>
             rest == IF o.maxMatches # -1 /\ count + 1 = o.maxMatches
                     THEN [msgs |-> <<>>, count |-> count + 1, pos |-> k]
                     ELSE RefLoop(o, pat, job, path, lines, k + 1, count + 1)
         IN  [rest EXCEPT !.msgs = m \o @]

\* the messages of job j, in the order searchFile sends them
RefScan(j) ==
    LET path == filePaths[j]
        r == RefLoop(matcher, pattern, j, path, fs[path].lines, 1, 0)
        c == IF matcher.onlyCount
             THEN <<Msg(j, "count", 0, SprintfPathCount(path, r.count))>>
             ELSE <<>>
        n == IF matcher.filesWithMatches /\ r.count > 0
             THEN <<Msg(j, "name", 0, Sprintln(<<path>>))>>
             ELSE <<>>
    IN  r.msgs \o c \o n

RECURSIVE RefFrom(_)
\* searchFile called on each file in turn, from entry j on
RefFrom(j) == IF j > Len(filePaths) THEN <<>> ELSE RefScan(j) \o RefFrom(j + 1)

\* the output of the single-threaded scan of filePaths in list order
RefAll == RefFrom(1)

\* number of occurrences of m in s
Count(s, m) == Cardinality({k \in DOMAIN s : s[k] = m})

\* s and t hold the same messages, each the same number of times
SameBag(s, t) ==
    /\ Len(s) = Len(t)
    /\ \A k \in DOMAIN s : Count(s, s[k]) = Count(t, s[k])

IsPrefix(s, t) == Len(s) <= Len(t) /\ \A k \in DOMAIN s : s[k] = t[k]

\* the messages of job j in s, in order
OfJob(s, j) == SelectSeq(s, LAMBDA m : m.job = j)

JobIds == 1..Len(filePaths)

(***************************************************************************)
(* C1.  No message is lost: when main returns, standard output holds       *)
(* exactly the messages of the single-threaded scan of the same files,     *)
(* each as often, and no produced message is still unprinted.              *)
(***************************************************************************)
C1_NoMessageLost ==
    exit = "ok" =>
        /\ SameBag(printed, RefAll)
        /\ result = NoMsg
        /\ \A w \in Workers : wk[w].pc \notin SendPc /\ wk[w].msg = NoMsg

\* a run of two workers that returned with its output in another order than
\* the single-threaded scan's
C1_Witness ==
    /\ exit = "ok"
    /\ poolSize >= 2
    /\ Len(printed) >= 3
    /\ printed # RefAll

(***************************************************************************)
(* C2.  Per-file output order: at every moment the printed messages of a   *)
(* file are, in order, an initial part of what searchFile sends for it     *)
(* (lines in increasing order, then the summaries).                        *)
(***************************************************************************)
C2_PerFileOrder ==
    \A j \in JobIds : IsPrefix(OfJob(printed, j), RefScan(j))

\* two lines of one file printed with a message of another file between them
C2_Witness ==
    \E a, b, c \in DOMAIN printed :
        /\ a < b /\ b < c
        /\ printed[a].job = printed[c].job
        /\ printed[b].job # printed[a].job
        /\ printed[a].kind = "line" /\ printed[c].kind = "line"

(***************************************************************************)
(* C3.  Exactly-once scanning: no entry of filePaths is sent on jobs twice *)
(* or scanned twice, none is scanned without having been sent, no two      *)
(* workers hold the same job, and when main returns every entry has been   *)
(* sent once and scanned once.                                             *)
(***************************************************************************)
\* the positions inside searchFile
InSearch == {"open", "scan", "summary", "name"} \cup SendPc

C3_ExactlyOnce ==
    \A j \in JobIds :
        /\ enqueued[j] <= 1
        /\ scans[j] <= enqueued[j]
        /\ Count(jobs, j) + scans[j] = enqueued[j]
        /\ Cardinality({w \in Workers : wk[w].pc \in InSearch /\ wk[w].job = j}) <= 1
        /\ exit = "ok" => enqueued[j] = 1 /\ scans[j] = 1

\* the same path given twice, scanned by two workers at the same time
C3_Witness ==
    /\ Len(filePaths) = 2
    /\ filePaths[1] = filePaths[2]
    /\ \E v, w \in Workers :
        /\ v # w
        /\ wk[v].pc = "scan" /\ wk[w].pc = "scan"
        /\ wk[v].job = 1 /\ wk[w].job = 2

(***************************************************************************)
(* C4.  Shutdown order: results is closed only after jobs has been closed  *)
(* and every worker has exited, no worker is in a send on results once it  *)
(* is closed, and main returns only after the print goroutine has ended.   *)
(***************************************************************************)
C4_ShutdownOrder ==
    /\ resultsClosed =>
        /\ jobsClosed
        /\ started = poolSize
        /\ \A w \in 1..poolSize : wk[w].pc = "done"
    /\ \A w \in Workers : wk[w].pc \in SendPc => ~resultsClosed
    /\ exit = "ok" => resultsClosed /\ printerPc = "done"

\* results closed after two workers have had their messages printed
C4_Witness ==
    /\ resultsClosed
    /\ poolSize >= 2
    /\ \E a, b \in DOMAIN printed : printed[a].job # printed[b].job

(***************************************************************************)
(* C5.  Termination: no reachable state is a deadlock, that is, as long as *)
(* the process has not exited some goroutine can take a step.              *)
(***************************************************************************)
C5_NoDeadlock == exit = "running" => ENABLED Next

(***************************************************************************)
(* C6.  Startup order: the print goroutine is started before any worker    *)
(* is started and before any job is sent, and a worker blocked in a send   *)
(* on results is eventually received from (or the process has exited).     *)
(***************************************************************************)
C6_StartupOrder ==
    /\ [](started > 0 \/ next > 1 \/ jobs # <<>> => printerPc # "off")
    /\ \A w \in Workers :
           (wk[w].pc \in SendPc) ~> (wk[w].pc \notin SendPc \/ exit # "running")

\* a worker blocked in its send while the print goroutine is busy printing
\* another worker's message
C6_Witness ==
    \E w \in Workers :
        /\ wk[w].pc \in SendPc
        /\ printerPc = "print"
        /\ result.job # wk[w].job

(***************************************************************************)
(* What the claims about one file's scan speak of.                         *)
(***************************************************************************)
\* the lines of job j
Lines(j) == fs[filePaths[j]].lines

\* the numbers of the non-blank lines of job j that match
Matching(j) ==
    {k \in 1..Len(Lines(j)) :
        Len(Lines(j)[k]) > 0 /\ Match(matcher, pattern, Lines(j)[k])}

Total(j) == Cardinality(Matching(j))

\* the number of the n-th matching line of job j
NthMatch(j, n) ==
    CHOOSE k \in Matching(j) : Cardinality({i \in Matching(j) : i <= k}) = n

\* the line at which a limit of n matches ends the scan of job j
StopLine(j, n) == IF Total(j) >= n THEN NthMatch(j, n) ELSE Len(Lines(j))

\* the printed messages of job j of one kind
OfKind(j, kind) == SelectSeq(printed, LAMBDA m : m.job = j /\ m.kind = kind)

\* the positions of a worker whose scan loop has ended
PastScan == {"summary", "sendCount", "name", "sendName"}

Min(a, b) == IF a <= b THEN a ELSE b

\* the %d field of a count message
CountField(m) == m.text[Len(m.text) - 1]

(***************************************************************************)
(* C7.  With filesWithMatches set, at most one message is printed for a    *)
(* file, whatever the other options are.                                   *)
(***************************************************************************)
C7_AtMostOneMessage ==
    matcher.filesWithMatches => \A j \in JobIds : Len(OfJob(printed, j)) <= 1

(***************************************************************************)
(* C8.  With maxMatches = K >= 1 the match counter never exceeds K, the    *)
(* scan never goes past the K-th matching line, the line messages are the  *)
(* first matches in order and at most K, and the scan ends at the K-th     *)
(* matching line or, when there are fewer than K, at the end of the file.  *)
(* As claimed, this is said of every mode; as amended, with                *)
(* filesWithMatches set the scan ends at the first matching line instead.  *)
(***************************************************************************)
\* the part that holds in every mode
C8_Limit(endsAt(_)) ==
    matcher.maxMatches >= 1 =>
        /\ \A w \in Workers :
            wk[w].pc \in (InSearch \ {"open"}) =>
                /\ wk[w].lineCount <= matcher.maxMatches
                /\ wk[w].pos <= StopLine(wk[w].job, matcher.maxMatches)
                /\ wk[w].pc \in PastScan => wk[w].pos = endsAt(wk[w].job)
        /\ \A j \in JobIds :
            LET sent == OfKind(j, "line")
            IN  /\ Len(sent) <= matcher.maxMatches
                /\ \A n \in DOMAIN sent : sent[n].lineNo = NthMatch(j, n)

\* where the scan ends according to the claim
C8_EndClaimed(j) == StopLine(j, matcher.maxMatches)

\* where it ends: at the first match when filesWithMatches is set
C8_EndAmended(j) ==
    IF matcher.filesWithMatches THEN StopLine(j, 1)
    ELSE StopLine(j, matcher.maxMatches)

C8_AsClaimed == C8_Limit(C8_EndClaimed)

C8_MaxMatches == C8_Limit(C8_EndAmended)

\* -m 2 on a file of three matching lines: the scan has ended at the second,
\* both lines are printed and the third was never read
C8_Witness ==
    \E w \in Workers :
        /\ matcher.maxMatches = 2
        /\ ~matcher.suppressNormalOutput
        /\ wk[w].pc = "summary"
        /\ Total(wk[w].job) = 3
        /\ wk[w].pos = 2
        /\ Len(OfKind(wk[w].job, "line")) = 2

(***************************************************************************)
(* C9.  In count mode exactly one count message is printed per file and no *)
(* line message, and the count is the number of matching non-blank lines   *)
(* of the scanned part: all of them without maxMatches, min(total, K) with *)
(* maxMatches = K >= 1.  As amended: min(total, 1) when filesWithMatches   *)
(* is set as well.                                                         *)
(***************************************************************************)
C9_Count(expected(_)) ==
    matcher.onlyCount =>
        \A j \in JobIds :
            LET counts == OfKind(j, "count")
            IN  /\ Len(counts) <= 1
                /\ OfKind(j, "line") = <<>>
                /\ \A n \in DOMAIN counts :
                       CountField(counts[n]) = ToString(expected(j))
                /\ exit = "ok" => Len(counts) = 1

C9_ExpectedClaimed(j) ==
    IF matcher.maxMatches >= 1 THEN Min(Total(j), matcher.maxMatches)
    ELSE IF matcher.filesWithMatches THEN Min(Total(j), 1)
    ELSE Total(j)

C9_ExpectedAmended(j) ==
    IF matcher.filesWithMatches THEN Min(Total(j), 1)
    ELSE IF matcher.maxMatches >= 1 THEN Min(Total(j), matcher.maxMatches)
    ELSE Total(j)

C10_CountFormat ==
    \A k \in DOMAIN printed :
        printed[k].kind = "count" =>
            LET t == printed[k].text
            IN  IF matcher.numFiles = 1
                THEN Len(t) = 2 /\ t[2] = "\n"
                ELSE /\ Len(t) = 4
                     /\ t[1] = filePaths[printed[k].job]
                     /\ t[2] = ":"
                     /\ t[4] = "\n"

(***************************************************************************)
(* What the claims about the matching of a line speak of.                  *)
(***************************************************************************)
\* sub is a run of consecutive characters of s
IsSubstring(sub, s) ==
    \E k \in 0..(Len(s) - Len(sub)) : SubSeq(s, k + 1, k + Len(sub)) = sub

\* s as the comparison sees it: lower-cased under caseInsensitive
Folded(s) == IF matcher.caseInsensitive THEN ToLower(s) ELSE s

\* line k of job j has been printed as a line message
Reported(j, k) ==
    \E n \in DOMAIN printed :
        /\ printed[n].job = j
        /\ printed[n].kind = "line"
        /\ printed[n].lineNo = k

\* literal search with none of -c, -l, -m
DefaultMode ==
    /\ ~matcher.regexp
    /\ ~matcher.onlyCount
    /\ ~matcher.filesWithMatches
    /\ matcher.maxMatches = -1

(***************************************************************************)
(* C11.  Literal matching in the default mode: when main has returned, a   *)
(* non-blank line has been reported exactly if the pattern, lower-cased    *)
(* under -i, is a substring of the line, lower-cased under -i; this holds  *)
(* for every pattern, the empty one included.  A blank line is never       *)
(* reported.                                                               *)
(***************************************************************************)
C11_LiteralMatch ==
    exit = "ok" /\ DefaultMode =>
        \A j \in JobIds : \A k \in 1..Len(Lines(j)) :
            Reported(j, k) <=>
                /\ Lines(j)[k] # <<>>
                /\ IsSubstring(Folded(pattern), Folded(Lines(j)[k]))

\* the statement as claimed: for every line, the empty ones included
C11_AsClaimed ==
    exit = "ok" /\ DefaultMode =>
        \A j \in JobIds : \A k \in 1..Len(Lines(j)) :
            Reported(j, k) <=> IsSubstring(Folded(pattern), Folded(Lines(j)[k]))

\* -i with the pattern "A": the line "a" reported, and the line "bA" too,
\* in a file that also has a blank line
C11_Witness ==
    /\ exit = "ok" /\ DefaultMode
    /\ matcher.caseInsensitive
    /\ pattern = <<"A">>
    /\ Lines(1) = <<(<<"a">>), <<>>, <<"b", "A">>>>
    /\ Reported(1, 1) /\ Reported(1, 3) /\ ~Reported(1, 2)

(***************************************************************************)
(* C12.  Case-insensitive matching: under -i, in literal and in regular-   *)
(* expression mode alike, a non-blank line is reported exactly if the      *)
(* lower-cased pattern matches the lower-cased line, so that the letter    *)
(* case of the pattern and of the line makes no difference.                *)
(***************************************************************************)
C12_CaseInsensitive ==
    /\ exit = "ok" /\ matcher.caseInsensitive
    /\ ~matcher.onlyCount /\ ~matcher.filesWithMatches /\ matcher.maxMatches = -1
    => \A j \in JobIds : \A k \in 1..Len(Lines(j)) :
           Reported(j, k) <=>
               /\ Lines(j)[k] # <<>>
               /\ IF matcher.regexp
                  THEN MatchString(ToLower(pattern), ToLower(Lines(j)[k]))
                  ELSE IsSubstring(ToLower(pattern), ToLower(Lines(j)[k]))

(***************************************************************************)
(* C13.  Configuration errors: when the pattern or the file argument is    *)
(* missing, or -e is given an expression that does not compile, main never *)
(* gets past the check that fails and exits there with a failure: the      *)
(* print goroutine and the workers are never started, no job is sent, no   *)
(* file is opened and nothing is printed.  A worker that matches with a    *)
(* regular expression always holds the compiled pattern, so Match has no   *)
(* compilation error to report or to hide.                                 *)
(***************************************************************************)
\* the expression has a group that is never closed
Unclosed(p) == \E k \in DOMAIN p : p[k] = "("

\* the command line has a configuration error
ConfigError == Len(args.tail) < 2 \/ (args.e /\ Unclosed(args.tail[1]))

C13_ConfigErrors ==
    /\ ConfigError =>
        /\ mainPc \in {"parse", "compile"}
        /\ mainPc = "compile" => Len(args.tail) >= 2
        /\ exit \in {"running", "fatal"}
        /\ exit = "running" => ENABLED Main
        /\ printerPc = "off" /\ started = 0
        /\ \A w \in Workers : wk[w] = Idle
        /\ jobs = <<>> /\ next = 1 /\ scans = <<>>
        /\ result = NoMsg /\ printed = <<>>
    /\ \A w \in Workers :
        wk[w].pc \in InSearch /\ matcher.regexp =>
            matcher.regexpPattern = pattern /\ ~Unclosed(pattern)

\* -e with "(": the process has exited at regexp.Compile
C13_Witness ==
    /\ exit = "fatal"
    /\ mainPc = "compile"
    /\ args.e /\ Unclosed(pattern)

(***************************************************************************)
(* C14.  Fatal file errors: a worker never gets past os.Open on a file     *)
(* that cannot be opened, nor past the end of the scan loop on a file      *)
(* whose read fails (unless -l or -m ended the loop before the failing     *)
(* read): the process exits at that step.  Once it has exited nothing      *)
(* moves any more: no worker dequeues, no message is sent, received or     *)
(* printed.  No message of a file that cannot be opened exists anywhere,   *)
(* and a failing file is sent at most once and scanned at most once.       *)
(***************************************************************************)
\* the messages of job j, printed, received or waiting in a send
Produced(j) ==
    {printed[n] : n \in {i \in DOMAIN printed : printed[i].job = j}}
    \cup (IF result # NoMsg /\ result.job = j THEN {result} ELSE {})
    \cup {wk[w].msg : w \in {v \in Workers : wk[v].pc \in SendPc /\ wk[v].job = j}}

C14_FatalFileErrors ==
    /\ \A w \in Workers :
        wk[w].pc \in InSearch \ {"open"} => fs[PathOf(w)].err # "open"
    /\ \A w \in Workers :
        wk[w].pc \in PastScan /\ fs[PathOf(w)].err = "read" =>
            \/ matcher.filesWithMatches /\ wk[w].hasMatch
            \/ matcher.maxMatches # -1 /\ wk[w].lineCount = matcher.maxMatches
    /\ \A j \in JobIds :
        /\ fs[filePaths[j]].err = "open" => Produced(j) = {}
        /\ fs[filePaths[j]].err # "none" =>
               /\ enqueued[j] <= 1 /\ scans[j] <= 1
               /\ scans[j] = 1 => Count(jobs, j) = 0
    /\ exit = "fatal" => ~ENABLED Next

\* the process has exited at the os.Open of one worker while another worker
\* was waiting in the send of a line, with a line already printed
C14_Witness ==
    /\ exit = "fatal"
    /\ printed # <<>>
    /\ \E v, w \in Workers :
        /\ wk[w].pc = "open" /\ fs[PathOf(w)].err = "open"
        /\ wk[v].pc = "sendLine"

(***************************************************************************)
(* C15.  Suppression of normal output: once NewMatcher has returned,       *)
(* suppressNormalOutput is true exactly if OnlyCount or FilesWithMatches   *)
(* is among the options, whatever their order and number (the program has  *)
(* no filesWithoutMatches option); the Matcher stays what NewMatcher       *)
(* returned; and when suppressNormalOutput is true no message carrying a   *)
(* line exists, printed, received or waiting in a send.                    *)
(***************************************************************************)
\* NewMatcher has returned
Configured == mainPc \notin {"parse", "compile", "discover", "newMatcher"}

\* opt is one of the options NewMatcher was called with
Given(opt) == \E k \in DOMAIN options : options[k] = opt

C15_Suppress ==
    Configured =>
        /\ matcher.onlyCount = Given(OnlyCount)
        /\ matcher.filesWithMatches = Given(FilesWithMatches)
        /\ matcher.suppressNormalOutput =
               (Given(OnlyCount) \/ Given(FilesWithMatches))
        /\ matcher = NewMatcher(options)
        /\ matcher.suppressNormalOutput =>
               \A j \in JobIds : \A m \in Produced(j) : m.kind # "line"

\* FilesWithMatches given before other options and alone to suppress: the run
\* has returned having printed the filename only
C15_Witness ==
    /\ exit = "ok"
    /\ options = <<FilesWithMatches, MaxMatches(1), CaseInsensitive>>
    /\ matcher.suppressNormalOutput
    /\ Len(printed) = 1 /\ printed[1].kind = "name"

(***************************************************************************)
(* C16.  filesWithMatches (-l without -c): the scan of a file never goes   *)
(* past its first matching non-blank line and ends there; the only message *)
(* of a file is its filename, sent at most once and only if the file has a *)
(* matching line; no message carries a line; when main has returned, each  *)
(* file with a matching line has exactly one message and every other file  *)
(* none.                                                                   *)
(***************************************************************************)
C16_FilesWithMatches ==
    matcher.filesWithMatches /\ ~matcher.onlyCount =>
        /\ \A w \in Workers :
            wk[w].pc \in (InSearch \ {"open"}) =>
                /\ wk[w].pos <= StopLine(wk[w].job, 1)
                /\ wk[w].pc \in PastScan => wk[w].pos = StopLine(wk[w].job, 1)
        /\ \A j \in JobIds :
            /\ \A m \in Produced(j) :
                /\ m.kind = "name"
                /\ m.text = Sprintln(<<filePaths[j]>>)
                /\ Total(j) > 0
            /\ Len(OfJob(printed, j)) <= 1
            /\ exit = "ok" =>
                   Len(OfJob(printed, j)) = (IF Total(j) > 0 THEN 1 ELSE 0)

\* -l on a file whose second and third lines match, given twice: the run
\* has returned with the filename printed once for each
C16_Witness ==
    /\ exit = "ok"
    /\ matcher.filesWithMatches /\ ~matcher.onlyCount
    /\ Len(filePaths) = 2
    /\ Matching(1) = {2, 3}
    /\ Len(printed) = 2
    /\ printed[1].kind = "name" /\ printed[2].kind = "name"

(***************************************************************************)
(* C17.  -m NUM for every NUM >= 0, zero included: the match counter of a  *)
(* scan never exceeds NUM, at most NUM lines of a file are printed, and a  *)
(* count message reports at most NUM.                                      *)
(***************************************************************************)
C17_MaxMatchesFromZero ==
    matcher.maxMatches >= 0 =>
        /\ \A w \in Workers :
            wk[w].pc \in (InSearch \ {"open"}) =>
                wk[w].lineCount <= matcher.maxMatches
        /\ \A j \in JobIds :
            /\ Len(OfKind(j, "line")) <= matcher.maxMatches
            /\ \A m \in Produced(j) :
                m.kind = "count" =>
                    \E n \in 0..matcher.maxMatches : CountField(m) = ToString(n)

(***************************************************************************)
(* C18.  Blank lines are never matched: for every pattern (the empty one   *)
(* and the expressions that match the empty string included) and in every  *)
(* mode, the counter of a scan is the number of matching non-blank lines   *)
(* read so far and hasMatch says whether there is one, a scan loop that    *)
(* ended before the last line, or that is sending a line, stands at a      *)
(* non-blank line, and no line message comes from a blank line.            *)
(***************************************************************************)
C18_BlankLines ==
    /\ \A w \in Workers :
        wk[w].pc \in (InSearch \ {"open"}) =>
            LET j == wk[w].job
                pos == wk[w].pos
            IN  /\ wk[w].lineCount = Cardinality({k \in Matching(j) : k <= pos})
                /\ wk[w].hasMatch = (wk[w].lineCount > 0)
                /\ wk[w].pc \in PastScan /\ pos < Len(Lines(j)) =>
                       pos >= 1 /\ Lines(j)[pos] # <<>>
                /\ wk[w].pc = "sendLine" =>
                       pos >= 1 /\ Lines(j)[pos] # <<>> /\ wk[w].msg.lineNo = pos
    /\ \A j \in JobIds :
        \A m \in Produced(j) : m.kind = "line" => Lines(j)[m.lineNo] # <<>>

\* the empty pattern on a file of a blank line, the line "a" and another
\* blank line: the run has returned with the second line printed and no other
C18_Witness ==
    /\ exit = "ok"
    /\ pattern = <<>>
    /\ Lines(1) = <<<<>>, <<"a">>, <<>>>>
    /\ Len(printed) = 1
    /\ printed[1].kind = "line" /\ printed[1].lineNo = 2

(***************************************************************************)
(* C19.  Pool bounds: at most poolSize files are being scanned at any      *)
(* moment, only by workers that were started and never the same job by     *)
(* two of them; at most poolSize jobs are sent and not yet dequeued; main  *)
(* cannot send the next job while the queue holds poolSize jobs, and can   *)
(* as soon as it holds fewer.  Before the channels are made there is no    *)
(* worker and no job.                                                      *)
(***************************************************************************)
\* the workers inside searchFile
Scanning == {w \in Workers : wk[w].pc \in InSearch}

\* main has a job left to send
SendPending == exit = "running" /\ mainPc = "enqueue" /\ next <= Len(filePaths)

C19_PoolBounds ==
    IF Configured
    THEN /\ Cardinality(Scanning) <= poolSize
         /\ Scanning \subseteq 1..started
         /\ started <= poolSize
         /\ \A v, w \in Scanning : v # w => wk[v].job # wk[w].job
         /\ Len(jobs) <= poolSize
         /\ SendPending /\ Len(jobs) = poolSize => ~ENABLED MainEnqueue
         /\ SendPending /\ Len(jobs) < poolSize => ENABLED MainEnqueue
    ELSE Scanning = {} /\ started = 0 /\ jobs = <<>>

\* main blocked in the send of the second job: the queue of a pool of one
\* worker is full and the worker is still scanning nothing
C19_Witness ==
    /\ SendPending
    /\ poolSize = 1
    /\ Len(jobs) = poolSize
    /\ Scanning = {}
    /\ ~ENABLED MainEnqueue

(***************************************************************************)
(* C20.  Backpressure: a worker holds a message that has not been received *)
(* exactly while it is blocked in the send of that message, so it has at   *)
(* most one; the message belongs to the job it is scanning and, if it is a *)
(* line, to the line it read last; and whenever a worker reads on or goes  *)
(* to its summary, every line and count it has sent has been received by   *)
(* the print goroutine.                                                    *)
(***************************************************************************)
\* the messages of job j of one kind that the print goroutine has received
Received(j, kind) ==
    Len(OfKind(j, kind))
        + (IF result.job = j /\ result.kind = kind THEN 1 ELSE 0)

C20_Backpressure ==
    \A w \in Workers :
        /\ wk[w].msg # NoMsg <=> wk[w].pc \in SendPc
        /\ wk[w].pc \in SendPc => wk[w].msg.job = wk[w].job
        /\ wk[w].pc = "sendLine" =>
               wk[w].msg.kind = "line" /\ wk[w].msg.lineNo = wk[w].pos
        /\ wk[w].pc \in (InSearch \ {"open"}) /\ ~matcher.suppressNormalOutput =>
               Received(wk[w].job, "line") =
                   wk[w].lineCount - (IF wk[w].pc = "sendLine" THEN 1 ELSE 0)
        /\ wk[w].pc \in {"name", "sendName"} /\ matcher.onlyCount =>
               Received(wk[w].job, "count") = 1

\* two workers blocked in the send of a line while the print goroutine is
\* printing a message it has received
C20_Witness ==
    /\ printerPc = "print"
    /\ \E v, w \in Workers :
        /\ v # w
        /\ wk[v].pc = "sendLine" /\ wk[w].pc = "sendLine"

====
